---- MODULE Spec2Model ----
(***************************************************************************)
(* Flocking kernel of bird.js (class Boid) driven by the frame loop of     *)
(* main.js (animate).                                                      *)
(*                                                                         *)
(* Numbers.  The program computes in IEEE doubles.  The model computes in  *)
(* fixed point: every scalar is an integer count of hundredths (Unit), so  *)
(* 0.05 is 5, 4.0 is 400 and 300 is 30000.  A quotient is rounded toward   *)
(* zero but never to zero (a double does not underflow at these sizes),    *)
(* and a length used as a divisor is rounded up, so rounding never         *)
(* lengthens a vector and never flips or loses a sign.                     *)
(***************************************************************************)
EXTENDS Integers, Sequences, FiniteSets

\* ------------------------------------------------------------------ bounds
\* Frames simulated per behaviour.
MaxTicks == 2
\* Largest integer whose square fits a 32-bit integer.
SqrtMax == 46340
\* Two points further apart than this on one axis are out of every radius.
DistCap == 20000

\* One fixed-point unit: hundredths.
Unit == 10 * 10

\* --------------------------------------------------------------- constants
\* this.maxForce = 0.05
maxForce == 5
\* this.maxSpeed = 4.0
maxSpeed == 400
\* const worldBounds = 300
worldBounds == 30000
\* getGroundHeight(...) + 10
floorBuffer == 1000
\* this.acceleration.y += 0.8
floorForce == 80
\* if (this.position.y > bounds + 50)
topMargin == 5000
\* multiplyScalar(delta * 10)
deltaScale == 10

\* ------------------------------------------------------------- arithmetic
Abs(a) == IF a < 0 THEN -a ELSE a
Sgn(a) == IF a < 0 THEN -1 ELSE IF a > 0 THEN 1 ELSE 0
Max(a, b) == IF a >= b THEN a ELSE b

\* a / b for b > 0: toward zero, a non-zero quotient stays non-zero.
Div(a, b) == IF a = 0 THEN 0 ELSE Sgn(a) * Max(1, Abs(a) \div b)

RECURSIVE SqrtSearch(_, _, _)
SqrtSearch(n, lo, hi) ==
  IF lo >= hi THEN lo
  ELSE LET mid == (lo + hi) \div 2
       IN  IF mid * mid >= n THEN SqrtSearch(n, lo, mid)
           ELSE SqrtSearch(n, mid + 1, hi)

\* Math.sqrt, rounded up.
Sqrt(n) == SqrtSearch(n, 0, SqrtMax)

\* ------------------------------------------------------------ THREE.Vector3
Vec(a, b, c) == [x |-> a, y |-> b, z |-> c]
Zero == Vec(0, 0, 0)

add(v, w) == Vec(v.x + w.x, v.y + w.y, v.z + w.z)
sub(v, w) == Vec(v.x - w.x, v.y - w.y, v.z - w.z)
lengthSq(v) == v.x * v.x + v.y * v.y + v.z * v.z
length(v) == Sqrt(lengthSq(v))

\* v * s, s a fixed-point scalar.
multiplyScalar(v, s) ==
  Vec(Div(v.x * s, Unit), Div(v.y * s, Unit), Div(v.z * s, Unit))

\* v / s, s a positive fixed-point scalar.
divideScalar(v, s) ==
  Vec(Div(v.x * Unit, s), Div(v.y * Unit, s), Div(v.z * Unit, s))

\* v * (num / den) in one rounding: what divideScalar(den).multiplyScalar(num)
\* computes.
scale(v, num, den) ==
  Vec(Div(v.x * num, den), Div(v.y * num, den), Div(v.z * num, den))

\* divideScalar(this.length() || 1)
normalize(v) == IF lengthSq(v) = 0 THEN v ELSE scale(v, Unit, length(v))

\* normalize().multiplyScalar(l)
setLength(v, l) == IF lengthSq(v) = 0 THEN v ELSE scale(v, l, length(v))

\* clampLength(0, max): divideScalar(length || 1).multiplyScalar(
\* Math.max(0, Math.min(max, length))).  A vector no longer than max is
\* divided and multiplied by its own length, which leaves it as it is.
clampLength(v, max) ==
  IF lengthSq(v) <= max * max THEN v ELSE scale(v, max, length(v))

\* Some axis separates p and q by more than DistCap: their distance is then
\* larger than every radius, and is not computed.
Far(p, q) ==
  \/ Abs(p.x - q.x) > DistCap
  \/ Abs(p.y - q.y) > DistCap
  \/ Abs(p.z - q.z) > DistCap

\* p.distanceTo(q)
distanceTo(p, q) == length(sub(p, q))

\* d > 0 && d < radius, for d = p.distanceTo(q); compared on the squares.
Near(p, q, radius) ==
  /\ ~Far(p, q)
  /\ lengthSq(sub(p, q)) > 0
  /\ lengthSq(sub(p, q)) < radius * radius

\* ------------------------------------------------------------------- Boid
Boid(p, v) == [position |-> p, velocity |-> v, acceleration |-> Zero]

\* The boids of the flock that a rule of radius r counts for self.
Neighbours(self, boids, radius) ==
  {j \in 1..Len(boids) : Near(self.position, boids[j].position, radius)}

\* diff = normalize(this.position - other.position) / d, added up over the
\* first k boids.
RECURSIVE SeparateSum(_, _, _, _)
SeparateSum(self, boids, radius, k) ==
  IF k = 0 THEN Zero
  ELSE LET rest == SeparateSum(self, boids, radius, k - 1)
           other == boids[k]
       IN  IF Near(self.position, other.position, radius)
           THEN add(rest,
                    divideScalar(normalize(sub(self.position, other.position)),
                                 distanceTo(self.position, other.position)))
           ELSE rest

\* sum.add(other.velocity) over the neighbours among the first k boids.
RECURSIVE VelocitySum(_, _, _, _)
VelocitySum(self, boids, radius, k) ==
  IF k = 0 THEN Zero
  ELSE LET rest == VelocitySum(self, boids, radius, k - 1)
       IN  IF Near(self.position, boids[k].position, radius)
           THEN add(rest, boids[k].velocity)
           ELSE rest

\* sum.add(other.position) over the neighbours among the first k boids.
RECURSIVE PositionSum(_, _, _, _)
PositionSum(self, boids, radius, k) ==
  IF k = 0 THEN Zero
  ELSE LET rest == PositionSum(self, boids, radius, k - 1)
       IN  IF Near(self.position, boids[k].position, radius)
           THEN add(rest, boids[k].position)
           ELSE rest

\* separate() with the difference taken from this to other.
separateTowards(self, boids, radius) ==
  LET count == Cardinality(Neighbours(self, boids, radius))
      sum == SeparateSum(self, boids, radius, Len(boids))
      steer == IF count > 0 THEN divideScalar(sum, count * Unit) ELSE sum
  IN  IF lengthSq(steer) > 0
      THEN clampLength(sub(setLength(multiplyScalar(steer, -Unit), maxSpeed),
                           self.velocity),
                       maxForce)
      ELSE steer

separate(self, boids, radius) ==
  LET count == Cardinality(Neighbours(self, boids, radius))
      sum == SeparateSum(self, boids, radius, Len(boids))
      steer == IF count > 0 THEN divideScalar(sum, count * Unit) ELSE sum
  IN  IF lengthSq(steer) > 0
      THEN clampLength(sub(setLength(steer, maxSpeed), self.velocity), maxForce)
      ELSE steer

\* align() without the test count > 0.
alignNoGuard(self, boids, radius) ==
  LET count == Cardinality(Neighbours(self, boids, radius))
      sum == VelocitySum(self, boids, radius, Len(boids))
  IN  clampLength(sub(setLength(divideScalar(sum, Max(count, 1) * Unit),
                                maxSpeed),
                      self.velocity),
                  maxForce)

align(self, boids, radius) ==
  LET count == Cardinality(Neighbours(self, boids, radius))
      sum == VelocitySum(self, boids, radius, Len(boids))
  IN  IF count > 0
      THEN clampLength(sub(setLength(divideScalar(sum, count * Unit), maxSpeed),
                           self.velocity),
                       maxForce)
      ELSE Zero

\* seek() with the line steer.clampLength(0, this.maxForce) forgotten.
seekNoClamp(self, target) ==
  sub(setLength(sub(target, self.position), maxSpeed), self.velocity)

seek(self, target) ==
  LET desired == setLength(sub(target, self.position), maxSpeed)
  IN  clampLength(sub(desired, self.velocity), maxForce)

cohere(self, boids, radius) ==
  LET count == Cardinality(Neighbours(self, boids, radius))
      sum == PositionSum(self, boids, radius, Len(boids))
  IN  IF count > 0
      THEN seek(self, divideScalar(sum, count * Unit))
      ELSE Zero

\* steering() with the line this.acceleration.add(coh) forgotten.
steeringNoCohesion(self, boids, params) ==
  LET sep == separate(self, boids, params.separationRadius)
      ali == align(self, boids, params.alignmentRadius)
  IN  add(multiplyScalar(sep, params.separation),
          multiplyScalar(ali, params.alignment))

\* The three weighted rule vectors that flock() adds to the acceleration.
steering(self, boids, params) ==
  LET sep == separate(self, boids, params.separationRadius)
      ali == align(self, boids, params.alignmentRadius)
      coh == cohere(self, boids, params.cohesionRadius)
  IN  add(add(multiplyScalar(sep, params.separation),
              multiplyScalar(ali, params.alignment)),
          multiplyScalar(coh, params.cohesion))

flock(self, boids, params) ==
  [self EXCEPT !.acceleration = add(@, steering(self, boids, params))]

\* update() with the line this.velocity.clampLength(0, this.maxSpeed) forgotten.
updateNoClamp(self, delta) ==
  LET v == add(self.velocity, self.acceleration)
  IN  [position |-> add(self.position, multiplyScalar(v, delta * deltaScale)),
       velocity |-> v,
       acceleration |-> multiplyScalar(self.acceleration, 0)]

\* update() with the line this.acceleration.multiplyScalar(0) forgotten.
updateNoReset(self, delta) ==
  LET v == clampLength(add(self.velocity, self.acceleration), maxSpeed)
  IN  [position |-> add(self.position, multiplyScalar(v, delta * deltaScale)),
       velocity |-> v,
       acceleration |-> self.acceleration]

update(self, delta) ==
  LET v == clampLength(add(self.velocity, self.acceleration), maxSpeed)
  IN  [position |-> add(self.position, multiplyScalar(v, delta * deltaScale)),
       velocity |-> v,
       acceleration |-> multiplyScalar(self.acceleration, 0)]

\* ---------------------------------------------------------------- terrain
\* The terrain mesh spans [-worldBounds, worldBounds] on x and z; a ray cast
\* outside it hits nothing and getGroundHeight returns 0.  Inside, the mesh
\* height is whatever the noise gave: "flat" is level ground, "ridge" is
\* 40 high where x < 0.
TerrainKinds == {"flat", "ridge"}

getGroundHeight(terrain, x, z) ==
  IF Abs(x) > worldBounds \/ Abs(z) > worldBounds THEN 0
  ELSE IF terrain = "ridge" /\ x < 0 THEN 40 * Unit
  ELSE 0

\* wrapBounds() with minY read after the x and z wraps.
wrapBoundsMinYAfter(self, bounds, terrain) ==
  LET p == self.position
      x1 == IF p.x > bounds THEN -bounds ELSE p.x
      x2 == IF x1 < -bounds THEN bounds ELSE x1
      z1 == IF p.z > bounds THEN -bounds ELSE p.z
      z2 == IF z1 < -bounds THEN bounds ELSE z1
      minY == getGroundHeight(terrain, p.x, p.z) + floorBuffer
      minY2 == getGroundHeight(terrain, x2, z2) + floorBuffer
      ay == IF p.y < minY THEN self.acceleration.y + floorForce
            ELSE self.acceleration.y
      y1 == IF p.y > bounds + topMargin THEN minY2 ELSE p.y
  IN  [position |-> Vec(x2, y1, z2),
       velocity |-> self.velocity,
       acceleration |-> [self.acceleration EXCEPT !.y = ay]]

\* wrapBounds() comparing with the ground height, the buffer forgotten.
wrapBoundsNoBuffer(self, bounds, terrain) ==
  LET p == self.position
      minY == getGroundHeight(terrain, p.x, p.z) + floorBuffer
      ay == IF p.y < minY - floorBuffer THEN self.acceleration.y + floorForce
            ELSE self.acceleration.y
      x1 == IF p.x > bounds THEN -bounds ELSE p.x
      x2 == IF x1 < -bounds THEN bounds ELSE x1
      y1 == IF p.y > bounds + topMargin THEN minY ELSE p.y
      z1 == IF p.z > bounds THEN -bounds ELSE p.z
      z2 == IF z1 < -bounds THEN bounds ELSE z1
  IN  [position |-> Vec(x2, y1, z2),
       velocity |-> self.velocity,
       acceleration |-> [self.acceleration EXCEPT !.y = ay]]

\* wrapBounds() pushing the velocity up at once instead of the acceleration.
wrapBoundsImmediate(self, bounds, terrain) ==
  LET p == self.position
      minY == getGroundHeight(terrain, p.x, p.z) + floorBuffer
      vy == IF p.y < minY THEN self.velocity.y + floorForce
            ELSE self.velocity.y
      x1 == IF p.x > bounds THEN -bounds ELSE p.x
      x2 == IF x1 < -bounds THEN bounds ELSE x1
      y1 == IF p.y > bounds + topMargin THEN minY ELSE p.y
      z1 == IF p.z > bounds THEN -bounds ELSE p.z
      z2 == IF z1 < -bounds THEN bounds ELSE z1
  IN  [position |-> Vec(x2, y1, z2),
       velocity |-> [self.velocity EXCEPT !.y = vy],
       acceleration |-> self.acceleration]

wrapBounds(self, bounds, terrain) ==
  LET p == self.position
      minY == getGroundHeight(terrain, p.x, p.z) + floorBuffer
      ay == IF p.y < minY THEN self.acceleration.y + floorForce
            ELSE self.acceleration.y
      x1 == IF p.x > bounds THEN -bounds ELSE p.x
      x2 == IF x1 < -bounds THEN bounds ELSE x1
      y1 == IF p.y > bounds + topMargin THEN minY ELSE p.y
      z1 == IF p.z > bounds THEN -bounds ELSE p.z
      z2 == IF z1 < -bounds THEN bounds ELSE z1
  IN  [position |-> Vec(x2, y1, z2),
       velocity |-> self.velocity,
       acceleration |-> [self.acceleration EXCEPT !.y = ay]]

\* ------------------------------------------------------------ configuration
\* const params = {...}; the GUI sliders rewrite its fields between frames.
DefaultParams ==
  [separation |-> 2 * Unit, alignment |-> Unit, cohesion |-> Unit,
   separationRadius |-> 30 * Unit, alignmentRadius |-> 50 * Unit,
   cohesionRadius |-> 50 * Unit]

\* Settings the sliders can reach (weights 0.1 .. 5.0, radii 5 .. 100).
ParamChoices ==
  {DefaultParams,
   [DefaultParams EXCEPT !.separation = Unit],
   [separation |-> Unit \div 10, alignment |-> 5 * Unit, cohesion |-> 5 * Unit,
    separationRadius |-> 100 * Unit, alignmentRadius |-> 5 * Unit,
    cohesionRadius |-> 100 * Unit]}

\* clock.getDelta(): 0 on the first call, a tenth of a second, or the five
\* seconds of a frame that follows a stalled tab.
DeltaChoices == {0, Unit \div 10, 5 * Unit}

\* Flocks at construction.  The first is the three-agent scenario with zero
\* velocities; the others are draws of the Boid constructor: a position in
\* [-200, 200] x [50, 100] x [-200, 200], a velocity of length in [2, 6).
ScenarioFlock ==
  <<Boid(Vec(0, 50 * Unit, 0), Zero),
    Boid(Vec(5 * Unit, 50 * Unit, 0), Zero),
    Boid(Vec(60 * Unit, 50 * Unit, 0), Zero)>>

InitialFlocks ==
  {ScenarioFlock,
   <<Boid(Vec(200 * Unit, 100 * Unit, -200 * Unit), Vec(400, 0, 0)),
     Boid(Vec(190 * Unit, 100 * Unit, -200 * Unit), Vec(0, 500, 0)),
     Boid(Vec(-200 * Unit, 60 * Unit, -200 * Unit), Vec(-300, 0, -400))>>,
   <<Boid(Vec(0, 50 * Unit, 0), Vec(0, -400, 0)),
     Boid(Vec(10 * Unit, 50 * Unit, 0), Vec(200, -100, 200)),
     Boid(Vec(10 * Unit, 50 * Unit, 0), Vec(0, 0, 450))>>,
   <<Boid(Vec(0, 60 * Unit, 0), Vec(-500, 0, 0)),
     Boid(Vec(10 * Unit, 60 * Unit, 0), Vec(100, 200, -200))>>,
   <<Boid(Vec(200 * Unit, 100 * Unit, 0), Vec(120, 300, 0))>>}

\* ------------------------------------------------------------------ state
VARIABLES
  boids,     \* let boids = []: the flock, in iteration order
  params,    \* const params: weights and radii
  terrain,   \* the terrain mesh behind getGroundHeight
  delta,     \* const delta = clock.getDelta() of the running frame
  pc,        \* the call of animate() that returned last
  cur,       \* index of the boid that call was made on
  tick,      \* frames started
  snap,      \* history: boids as the running frame found them
  prev,      \* history: boids[cur] before the last call
  steer,     \* history: what the last flock() added to the acceleration
  hit        \* history: per boid, did its last wrapBounds find it too low

vars == <<boids, params, terrain, delta, pc, cur, tick, snap, prev, steer, hit>>

\* animate() handing flock() a copy of the flock made when the frame began.
flockArgSnapshot == snap

\* The array that boid.flock(boids, params) is handed.
flockArg == boids

Init ==
  /\ boids \in InitialFlocks
  /\ params \in ParamChoices
  /\ terrain \in TerrainKinds
  /\ delta = 0
  /\ pc = "idle"
  /\ cur = 0
  /\ tick = 0
  /\ snap = boids
  /\ prev = boids[1]
  /\ steer = Zero
  /\ hit = [i \in 1..Len(boids) |-> FALSE]

\* Radii the rules are evaluated at: the ends of the sliders and the defaults.
RadiusChoices == {5 * Unit, 30 * Unit, 50 * Unit, 100 * Unit}

\* A slider of the GUI is moved between two frames.
GuiChange ==
  /\ pc = "idle"
  /\ \E p \in ParamChoices : p # params /\ params' = p
  /\ UNCHANGED <<boids, terrain, delta, pc, cur, tick, snap, prev, steer, hit>>

\* animate(): requestAnimationFrame fires and the frame reads the clock.
Animate ==
  /\ pc = "idle"
  /\ tick < MaxTicks
  /\ \E d \in DeltaChoices : delta' = d
  /\ pc' = "frame"
  /\ cur' = 0
  /\ tick' = tick + 1
  /\ snap' = boids
  /\ UNCHANGED <<boids, params, terrain, prev, steer, hit>>

\* boid.flock(boids, params), for the next boid of the loop.
Flock ==
  /\ pc \in {"frame", "wrapped"}
  /\ cur < Len(boids)
  /\ cur' = cur + 1
  /\ pc' = "flocked"
  /\ prev' = boids[cur + 1]
  /\ steer' = steering(boids[cur + 1], flockArg, params)
  /\ boids' = [boids EXCEPT ![cur + 1] = flock(@, flockArg, params)]
  /\ UNCHANGED <<params, terrain, delta, tick, snap, hit>>

\* boid.update(delta)
Update ==
  /\ pc = "flocked"
  /\ pc' = "updated"
  /\ prev' = boids[cur]
  /\ boids' = [boids EXCEPT ![cur] = update(@, delta)]
  /\ UNCHANGED <<params, terrain, delta, cur, tick, snap, steer, hit>>

\* boid.wrapBounds(worldBounds, getGroundHeight).  (boid.updateMesh(), which
\* follows it, copies position and heading to the mesh and writes no field of
\* the boid.)
WrapBounds ==
  /\ pc = "updated"
  /\ pc' = "wrapped"
  /\ prev' = boids[cur]
  /\ boids' = [boids EXCEPT ![cur] = wrapBounds(@, worldBounds, terrain)]
  /\ hit' = [hit EXCEPT ![cur] =
               boids[cur].position.y <
                 getGroundHeight(terrain, boids[cur].position.x,
                                 boids[cur].position.z) + floorBuffer]
  /\ UNCHANGED <<params, terrain, delta, cur, tick, snap, steer>>

\* The loop is over: the camera is moved and the scene rendered.
Render ==
  /\ pc = "wrapped"
  /\ cur = Len(boids)
  /\ pc' = "idle"
  /\ UNCHANGED <<boids, params, terrain, delta, cur, tick, snap, prev, steer, hit>>

Next == GuiChange \/ Animate \/ Flock \/ Update \/ WrapBounds \/ Render

Spec == Init /\ [][Next]_vars

\* ================================================================== claims
\* Boid i has been through update() at least once.
Integrated(i) ==
  \/ tick > 1
  \/ tick = 1 /\ (i < cur \/ (i = cur /\ pc \in {"updated", "wrapped", "idle"}))

\* Boid i is between its wrapBounds() of one frame and its flock() of the next.
Settled(i) ==
  \/ i < cur
  \/ i = cur /\ pc \in {"wrapped", "idle"}
  \/ i > cur /\ tick >= 2

\* minY as wrapBounds() computes it for boid b.
MinY(b) == getGroundHeight(terrain, b.position.x, b.position.z) + floorBuffer

\* C1 (speed bound): once update() has run on a boid, the length of its
\* velocity is at most maxSpeed, in every later state, whatever delta, the
\* parameters, the terrain and the initial velocity were.
C1_SpeedBound ==
  \A i \in 1..Len(boids) :
    Integrated(i) => lengthSq(boids[i].velocity) <= maxSpeed * maxSpeed

\* A boid constructed faster than maxSpeed has just been integrated.
C1_Witness ==
  /\ pc = "updated"
  /\ tick = 1
  /\ lengthSq(prev.velocity) > maxSpeed * maxSpeed
  /\ lengthSq(boids[cur].velocity) <= maxSpeed * maxSpeed
  /\ lengthSq(boids[cur].velocity) > 0

\* C2 as stated (acceleration accumulator): at the end of every frame the
\* acceleration of every boid is the zero vector.
C2_ZeroAtEndOfTick ==
  (pc = "idle" /\ tick > 0) =>
    \A i \in 1..Len(boids) : boids[i].acceleration = Zero

\* C2 as amended: between its wrapBounds() and its next flock() the
\* acceleration of a boid is zero on x and z, and on y it is 0.8 when that
\* wrapBounds() found the boid below minY and zero when it did not.
C2_ZeroButFloorForce ==
  /\ \A i \in 1..Len(boids) :
       Settled(i) =>
         boids[i].acceleration = Vec(0, IF hit[i] THEN floorForce ELSE 0, 0)
  /\ pc = "wrapped" => (hit[cur] <=> prev.position.y < MinY(prev))

\* A frame has ended with one boid carrying the floor force and another not.
C2_Witness ==
  /\ pc = "idle"
  /\ tick > 0
  /\ \E i, j \in 1..Len(boids) :
       /\ boids[i].acceleration = Vec(0, floorForce, 0)
       /\ boids[j].acceleration = Zero

\* The three-agent scenario: weights 1.0, radii 30/50/50, level ground, one
\* frame of a tenth of a second, just completed.
ScenarioStepped ==
  /\ tick = 1
  /\ pc = "wrapped"
  /\ cur = Len(boids)
  /\ snap = ScenarioFlock
  /\ params = [DefaultParams EXCEPT !.separation = Unit]
  /\ terrain = "flat"
  /\ delta = Unit \div 10

\* C3 as stated (end-to-end repulsion): after the frame the X-distance of
\* agents 0 and 1 is strictly greater than 5.
C3_Repelled ==
  ScenarioStepped => boids[2].position.x - boids[1].position.x > 5 * Unit

\* C3 as amended: after the frame the X-distance of agents 0 and 1 is still
\* exactly 5: with equal weights the separation and cohesion vectors of each
\* of the two are opposite and both of length maxForce, so neither moves.
C3_Unmoved ==
  ScenarioStepped =>
    /\ boids[2].position.x - boids[1].position.x = 5 * Unit
    /\ boids[1] = ScenarioFlock[1]
    /\ boids[2] = ScenarioFlock[2]

\* The scenario has been stepped and the two agents are where they were.
C3_Witness ==
  /\ ScenarioStepped
  /\ boids[2].position.x - boids[1].position.x = 5 * Unit
  /\ separate(snap[1], snap, params.separationRadius) = Vec(-maxForce, 0, 0)
  /\ cohere(snap[1], snap, params.cohesionRadius) = Vec(maxForce, 0, 0)

\* Boid a lies at the lower X of two boids that differ in X only.
AlongX(a, b) ==
  /\ a.position.y = b.position.y
  /\ a.position.z = b.position.z
  /\ a.position.x < b.position.x

\* C4 as stated (separation direction): in a flock of two boids that differ
\* in X only and are closer than the radius, the separation vector of the one
\* at the lower X has a strictly negative X component, whatever its velocity.
C4_PushedAway ==
  \A i, j \in 1..Len(boids) : \A r \in RadiusChoices :
    (AlongX(boids[i], boids[j]) /\ Near(boids[i].position, boids[j].position, r))
      => separate(boids[i], <<boids[i], boids[j]>>, r).x < 0

\* C4 as amended: the same, for every velocity whose X component is greater
\* than -maxSpeed.  (The vector is the clamped difference of (-maxSpeed, 0, 0)
\* and the velocity: its X component is zero at velocity.x = -maxSpeed and
\* positive below that.)
C4_PushedAwayUnlessFleeing ==
  \A i, j \in 1..Len(boids) : \A r \in RadiusChoices :
    (/\ AlongX(boids[i], boids[j])
     /\ Near(boids[i].position, boids[j].position, r)
     /\ boids[i].velocity.x > -maxSpeed)
      => separate(boids[i], <<boids[i], boids[j]>>, r).x < 0

\* flock() has just run on the lower of the two boids of a flock of two,
\* which flies across the X axis, and its separation vector points to -X.
C4_Witness ==
  /\ pc = "flocked"
  /\ Len(boids) = 2
  /\ cur = 1
  /\ AlongX(prev, boids[2])
  /\ Near(prev.position, boids[2].position, params.separationRadius)
  /\ prev.velocity.y # 0
  /\ prev.velocity.x > -maxSpeed
  /\ prev.velocity.x < 0
  /\ separate(prev, flockArg, params.separationRadius).x < 0

\* C5 (force bound): whatever the flock and the radius, the vectors that
\* separate(), align(), cohere() and seek() return are at most maxForce long.
C5_ForceBound ==
  \A i \in 1..Len(boids) :
    /\ \A r \in RadiusChoices :
         /\ lengthSq(separate(boids[i], boids, r)) <= maxForce * maxForce
         /\ lengthSq(align(boids[i], boids, r)) <= maxForce * maxForce
         /\ lengthSq(cohere(boids[i], boids, r)) <= maxForce * maxForce
    /\ \A j \in 1..Len(boids) :
         ~Far(boids[i].position, boids[j].position) =>
           lengthSq(seek(boids[i], boids[j].position)) <= maxForce * maxForce

\* flock() has just run on a boid for which all three rules gave a vector,
\* one of them of length maxForce exactly.
C5_Witness ==
  /\ pc = "flocked"
  /\ lengthSq(separate(prev, flockArg, params.separationRadius)) > 0
  /\ lengthSq(align(prev, flockArg, params.alignmentRadius)) > 0
  /\ lengthSq(cohere(prev, flockArg, params.cohesionRadius)) = maxForce * maxForce

\* No boid of flock f is a neighbour of b at radius r: each is at distance 0
\* or at distance r or more.
Alone(b, f, r) ==
  \A j \in 1..Len(f) :
    \/ Far(b.position, f[j].position)
    \/ lengthSq(sub(b.position, f[j].position)) = 0
    \/ lengthSq(sub(b.position, f[j].position)) >= r * r

\* C6 (isolation): a rule whose radius holds no neighbour of a boid returns
\* the zero vector for it, whatever its velocity; a boid with no neighbour in
\* any of the three radii leaves flock() with the acceleration it came with.
C6_Isolation ==
  /\ \A i \in 1..Len(boids) : \A r \in RadiusChoices :
       Alone(boids[i], boids, r) =>
         /\ separate(boids[i], boids, r) = Zero
         /\ align(boids[i], boids, r) = Zero
         /\ cohere(boids[i], boids, r) = Zero
  /\ (/\ pc = "flocked"
      /\ Alone(prev, flockArg, params.separationRadius)
      /\ Alone(prev, flockArg, params.alignmentRadius)
      /\ Alone(prev, flockArg, params.cohesionRadius))
       => (steer = Zero /\ boids[cur].acceleration = prev.acceleration)

\* flock() has just run on a moving boid that has the others out of every
\* radius, or on top of it.
C6_Witness ==
  /\ pc = "flocked"
  /\ Len(boids) > 1
  /\ lengthSq(prev.velocity) > 0
  /\ Alone(prev, flockArg, params.separationRadius)
  /\ Alone(prev, flockArg, params.alignmentRadius)
  /\ Alone(prev, flockArg, params.cohesionRadius)
  /\ boids[cur].acceleration = prev.acceleration

\* World bounds the wrap is evaluated at, besides the one of main.js.
BoundChoices == {0, 100 * Unit, worldBounds}

\* What the edge wrap makes of boid b, as boid a, at bound B.
Wrapped(b, a, B) ==
  /\ a.position.x = IF b.position.x > B THEN -B
                    ELSE IF b.position.x < -B THEN B ELSE b.position.x
  /\ a.position.z = IF b.position.z > B THEN -B
                    ELSE IF b.position.z < -B THEN B ELSE b.position.z
  /\ a.position.y = IF b.position.y > B + topMargin THEN MinY(b)
                    ELSE b.position.y

\* C7 (wrap correctness): wrapBounds() sends x above B to -B and x below -B
\* to B, and z likewise; sends y above B + 50 to the minY of the position it
\* was called at; and leaves every other coordinate as it is, a y below any
\* lower edge included.
C7_Wrap ==
  /\ pc = "wrapped" => Wrapped(prev, boids[cur], worldBounds)
  /\ \A i \in 1..Len(boids) : \A B \in BoundChoices :
       Wrapped(boids[i], wrapBounds(boids[i], B, terrain), B)

\* wrapBounds() has just taken a boid from beyond the +X edge and above the
\* top edge to the -X edge, where the ground is higher, and to the minY of
\* the place it left.
C7_Witness ==
  /\ pc = "wrapped"
  /\ prev.position.x > worldBounds
  /\ prev.position.y > worldBounds + topMargin
  /\ boids[cur].position.x = -worldBounds
  /\ boids[cur].position.y = MinY(prev)
  /\ MinY(boids[cur]) # MinY(prev)

\* C8 (terrain floor correction): wrapBounds() adds exactly 0.8 to
\* acceleration.y when position.y < minY, and leaves the acceleration as it
\* is otherwise; it changes no other component of the acceleration, never
\* the velocity, and the position of a boid inside the bounds not at all.
C8_FloorForce ==
  /\ \A i \in 1..Len(boids) :
       LET b == boids[i]
           a == wrapBounds(b, worldBounds, terrain)
       IN  /\ a.acceleration =
                IF b.position.y < MinY(b)
                THEN add(b.acceleration, Vec(0, floorForce, 0))
                ELSE b.acceleration
           /\ a.velocity = b.velocity
           /\ (/\ Abs(b.position.x) <= worldBounds
               /\ Abs(b.position.z) <= worldBounds
               /\ b.position.y <= worldBounds + topMargin)
                => a.position = b.position
  /\ pc = "wrapped" =>
       /\ boids[cur].velocity = prev.velocity
       /\ boids[cur].acceleration =
            IF prev.position.y < MinY(prev)
            THEN add(prev.acceleration, Vec(0, floorForce, 0))
            ELSE prev.acceleration

\* wrapBounds() has just found a boid above the ground but inside the buffer
\* and raised its acceleration.y by 0.8.
C8_Witness ==
  /\ pc = "wrapped"
  /\ prev.position.y < MinY(prev)
  /\ prev.position.y >= MinY(prev) - floorBuffer
  /\ boids[cur].acceleration.y = prev.acceleration.y + floorForce

\* C9 (one-tick lag): a boid goes through flock(), update(), wrapBounds() in
\* that order; when wrapBounds() finds it below minY it ends the frame with
\* the velocity update() gave it and the position the edge wrap alone gives,
\* and the update() of the next frame adds 0.8 to velocity.y together with
\* that frame's steering.
C9_Lag ==
  /\ (pc = "wrapped" /\ hit[cur]) =>
       /\ boids[cur].velocity = prev.velocity
       /\ Wrapped(prev, boids[cur], worldBounds)
  /\ (pc = "updated" /\ tick >= 2 /\ hit[cur]) =>
       boids[cur].velocity =
         clampLength(add(add(snap[cur].velocity, steer), Vec(0, floorForce, 0)),
                     maxSpeed)
  /\ (pc = "updated" /\ (tick = 1 \/ ~hit[cur])) =>
       boids[cur].velocity = clampLength(add(snap[cur].velocity, steer), maxSpeed)

\* update() has just run on a boid that the frame before found below minY,
\* and the 0.8 shows in its velocity.
C9_Witness ==
  /\ pc = "updated"
  /\ tick >= 2
  /\ hit[cur]
  /\ lengthSq(steer) > 0
  /\ boids[cur].velocity # clampLength(add(snap[cur].velocity, steer), maxSpeed)
  /\ boids[cur].velocity.y > snap[cur].velocity.y

\* The flock as the flock() of boid i finds it: the boids before i as the
\* running frame left them, the others as the frame found them.
Mixed(i) ==
  [j \in 1..Len(boids) |-> IF j < i THEN boids[j] ELSE snap[j]]

\* Boid i after its three calls of the running frame.
Stepped(i) ==
  wrapBounds(update(flock(snap[i], Mixed(i), params), delta),
             worldBounds, terrain)

\* The flock after a frame that computes every steering from the flock as
\* the frame found it.
Buffered ==
  [j \in 1..Len(boids) |->
     wrapBounds(update(flock(snap[j], snap, params), delta),
                worldBounds, terrain)]

\* C10 (same-tick read-after-write): within a frame the boids are taken in
\* flock order, each through all three calls before the next; the rules of a
\* boid read the boids before it as this frame left them and the boids after
\* it as the frame found them.
C10_ReadAfterWrite ==
  pc \in {"frame", "flocked", "updated", "wrapped"} =>
    /\ \A j \in 1..Len(boids) :
         /\ (j < cur \/ (j = cur /\ pc = "wrapped")) => boids[j] = Stepped(j)
         /\ j > cur => boids[j] = snap[j]
    /\ pc = "flocked" =>
         /\ steer = steering(snap[cur], Mixed(cur), params)
         /\ boids[cur] = flock(snap[cur], Mixed(cur), params)
    /\ pc = "updated" =>
         boids[cur] = update(flock(snap[cur], Mixed(cur), params), delta)

\* A frame has ended in a flock other than the one double buffering gives.
C10_Witness ==
  /\ pc = "wrapped"
  /\ cur = Len(boids)
  /\ \A j \in 1..Len(boids) : boids[j] = Stepped(j)
  /\ boids # Buffered

====
